---- MODULE Spec2Model ----
(***************************************************************************)
(* Model of the PDF preprocessing pipeline of ingestion/00_preprocess.py:  *)
(* the text normalizer (normalize_word_breaks) and the structured page     *)
(* builder (table_to_html, pages_to_html); of the search tool of           *)
(* src/search_tool.py (extract_page_from_content, search); and of the      *)
(* ingestion steps 01_prepare_data.py and 02_upload_to_gcs.py.             *)
(*                                                                         *)
(* Text is a sequence of one-character strings.  Python values that may be *)
(* None are records: PyNone, PyStr(s).                                     *)
(***************************************************************************)
EXTENDS Integers, Sequences, FiniteSets, TLC

VARIABLES
    text,        \* normalize_word_breaks: the argument of the call
    result,      \* normalize_word_breaks: the value returned (Unset before)
    npc,         \* normalizer caller's position: "call" | "returned" | "again"
    pages_data,  \* pages_to_html: the page records
    title,       \* pages_to_html: the document title
    split_pages, \* pages_to_html: one document per page?
    html_parts,  \* pages_to_html: the list of strings returned
    rpc,         \* renderer caller's position: "call" | "returned"
    content,     \* extract_page_from_content: the argument of the call
    page_number, \* extract_page_from_content: the value returned
    epc,         \* its caller's position: "call" | "returned"
    query,       \* search: the argument of the call
    response,    \* search: the results the backend holds for the query
    fault,       \* search: where the client or the backend raises, if at all
    chunks,      \* search: the local list of chunk records
    next_result, \* search: index of the next result of the loop
    ret,         \* search: the dict returned (Unset before)
    spc,         \* search's position: "call" | "loop" | "returned"
    inputs,      \* ingestion: the files outside the output directory
    html_dir,    \* ingestion: the files of <output-dir>/html, by name
    metadata_file,   \* ingestion: the lines of <output-dir>/metadata.jsonl
                     \* (<<>>: no such file; the file never has no line)
    issued,      \* 01_prepare_data: the ids given so far, each with the
                 \* file name and the content it was given for
    prepares,    \* 01_prepare_data: runs so far
    bucket,      \* 02_upload_to_gcs: the blobs of the bucket, by name
    blobs_to_delete, \* 02_upload_to_gcs: old blobs still to delete
    html_files,  \* 02_upload_to_gcs: local files still to upload
    ops,         \* 02_upload_to_gcs: the bucket operations of this run
    ipc          \* 02_upload_to_gcs: "idle" | "uploading" | "failed" | "done"
                 \* (done: the last run completed and nothing was prepared since)

nvars == <<text, result, npc>>
rvars == <<pages_data, title, split_pages, html_parts, rpc>>
evars == <<content, page_number, epc>>
svars == <<query, response, fault, chunks, next_result, ret, spc>>
ivars == <<inputs, html_dir, metadata_file, issued, prepares, bucket,
           blobs_to_delete, html_files, ops, ipc>>
vars == <<text, result, npc, pages_data, title, split_pages, html_parts, rpc,
          content, page_number, epc,
          query, response, fault, chunks, next_result, ret, spc,
          inputs, html_dir, metadata_file, issued, prepares, bucket,
          blobs_to_delete, html_files, ops, ipc>>

-----------------------------------------------------------------------------
(* Bounds of the explored inputs *)

\* longest text over Chars handed to the normalizer
MaxLen == 5
\* longest text put in front of the literal "foo - bar"
MaxPreFoo == 4
\* longest text put in front of the literal "compe-\ntence"
MaxPreCompe == 6
\* most page records handed to pages_to_html
MaxPages == 2
\* most tables of one page
MaxTables == 2

-----------------------------------------------------------------------------
(* Characters and Python values *)

\* characters matched by \w (str pattern: alphanumerics and underscore)
Word == {"a", "b", "c", "e", "f", "m", "n", "o", "p", "r", "t"}
\* characters matched by \s
Space == {" ", "\n", "\t"}
Hyphen == {"-"}
Newline == {"\n"}

PyNone == [type |-> "NoneType"]
PyStr(s) == [type |-> "str", val |-> s]
Unset == [type |-> "unset"]

\* Python truthiness of None / str: `if not text`
Truthy(v) == v.type = "str" /\ v.val # <<>>

\* the components that take no part in a behaviour stay as they are here
IdleNormalize == text = PyNone /\ result = Unset /\ npc = "idle"
IdleRender ==
    /\ pages_data = <<>>
    /\ title = <<>>
    /\ split_pages = FALSE
    /\ html_parts = <<>>
    /\ rpc = "idle"
IdleExtract == content = PyNone /\ page_number = Unset /\ epc = "idle"
IdleSearch ==
    /\ query = ""
    /\ response = <<>>
    /\ fault = [stage |-> "none", at |-> 0, msg |-> ""]
    /\ chunks = <<>>
    /\ next_result = 0
    /\ ret = Unset
    /\ spc = "idle"
IdleIngest ==
    /\ inputs = <<>>
    /\ html_dir = <<>>
    /\ metadata_file = <<>>
    /\ issued = {}
    /\ prepares = 0
    /\ bucket = <<>>
    /\ blobs_to_delete = {}
    /\ html_files = {}
    /\ ops = <<>>
    /\ ipc = "off"

-----------------------------------------------------------------------------
(* A backtracking matcher for the regular expressions of re.sub.           *)
(* A pattern is a sequence of items; an item matches characters of cls,    *)
(* exactly one (many = FALSE) or a greedy run of at least min (many =      *)
(* TRUE); grp > 0 makes the item capture group grp.                        *)

One(cls) == [cls |-> cls, min |-> 1, many |-> FALSE, grp |-> 0]
Plus(cls) == [cls |-> cls, min |-> 1, many |-> TRUE, grp |-> 0]
Star(cls) == [cls |-> cls, min |-> 0, many |-> TRUE, grp |-> 0]
AtLeast(n, cls) == [cls |-> cls, min |-> n, many |-> TRUE, grp |-> 0]
Group(g, item) == [item EXCEPT !.grp = g]

RECURSIVE RunLen(_, _, _)
\* length of the longest run of characters of cls in s from index i
RunLen(cls, s, i) ==
    IF i <= Len(s) /\ s[i] \in cls THEN 1 + RunLen(cls, s, i + 1) ELSE 0

RECURSIVE MatchFrom(_, _, _, _)
RECURSIVE TryLen(_, _, _, _, _)
\* The first match, in the matcher's priority order (greedy, then
\* backtracking to shorter runs), of items k.. of pat at index i of s:
\* <<i_k, ..., i_(n+1)>> where item j matched s[i_j .. i_(j+1) - 1];
\* <<>> when there is none.
MatchFrom(pat, k, s, i) ==
    IF k > Len(pat) THEN <<i>>
    ELSE LET it == pat[k]
             m == IF it.many THEN RunLen(it.cls, s, i)
                  ELSE IF i <= Len(s) /\ s[i] \in it.cls THEN 1 ELSE 0
         IN IF m < it.min THEN <<>> ELSE TryLen(pat, k, s, i, m)

TryLen(pat, k, s, i, n) ==
    LET rest == MatchFrom(pat, k + 1, s, i + n)
    IN IF rest # <<>> THEN <<i>> \o rest
       ELSE IF n > pat[k].min THEN TryLen(pat, k, s, i, n - 1)
       ELSE <<>>

\* the text captured by group g of a match with boundaries b
Captured(pat, s, b, g) ==
    LET k == CHOOSE j \in 1..Len(pat) : pat[j].grp = g
    IN SubSeq(s, b[k], b[k + 1] - 1)

RECURSIVE Expand(_, _, _, _)
\* the replacement template repl (group references and literal characters)
\* expanded for one match
Expand(repl, pat, s, b) ==
    IF repl = <<>> THEN <<>>
    ELSE (IF Head(repl).grp > 0 THEN Captured(pat, s, b, Head(repl).grp)
          ELSE <<Head(repl).lit>>)
         \o Expand(Tail(repl), pat, s, b)

RECURSIVE SubFrom(_, _, _, _)
\* re.sub from position pos: leftmost match, replaced, then on from its end
\* (matches never overlap and none of the patterns matches the empty text)
SubFrom(pat, repl, s, pos) ==
    IF pos > Len(s) THEN <<>>
    ELSE LET b == MatchFrom(pat, 1, s, pos)
         IN IF b = <<>> THEN <<s[pos]>> \o SubFrom(pat, repl, s, pos + 1)
            ELSE Expand(repl, pat, s, b) \o SubFrom(pat, repl, s, b[Len(b)])

re_sub(pat, repl, s) == SubFrom(pat, repl, s, 1)

Ref(g) == [grp |-> g, lit |-> ""]
Lit(c) == [grp |-> 0, lit |-> c]

-----------------------------------------------------------------------------
(* normalize_word_breaks *)

\* r'(\w+)\s+-\s+(\w+)'
PatSpaceHyphenSpace ==
    <<Group(1, Plus(Word)), Plus(Space), One(Hyphen), Plus(Space),
      Group(2, Plus(Word))>>
\* r'(\w+)-\s*\n\s*(\w+)'  (MULTILINE and DOTALL change nothing: no ^ $ .)
PatHyphenNewline ==
    <<Group(1, Plus(Word)), One(Hyphen), Star(Space), One(Newline),
      Star(Space), Group(2, Plus(Word))>>
\* a third pattern that takes a full stop for a word character
PatHyphenSpaceAfterStop ==
    <<Group(1, Plus(Word \cup {"."})), One(Hyphen), Plus(Space),
      Group(2, Plus(Word))>>
\* r'(\w+)-\s+(\w+)'
PatHyphenSpace ==
    <<Group(1, Plus(Word)), One(Hyphen), Plus(Space), Group(2, Plus(Word))>>
\* r'\n{4,}'
PatNewlinesFour == <<AtLeast(4, Newline)>>

\* r'\n{3,}'
PatNewlines == <<AtLeast(3, Newline)>>

\* r'\1\2'
ReplJoin == <<Ref(1), Ref(2)>>
\* '\n\n'
ReplParagraph == <<Lit("\n"), Lit("\n")>>

\* the four substitutions, in order, on a non-empty str
Substitute(s) ==
    LET s1 == re_sub(PatSpaceHyphenSpace, ReplJoin, s)
        s2 == re_sub(PatHyphenNewline, ReplJoin, s1)
        s3 == re_sub(PatHyphenSpace, ReplJoin, s2)
    IN re_sub(PatNewlines, ReplParagraph, s3)

\* normalize_word_breaks without its lines 29-30: re.sub raises TypeError
\* on None
normalize_no_early_return(t) ==
    IF t.type # "str" THEN [type |-> "raise", exc |-> "TypeError"]
    ELSE PyStr(Substitute(t.val))

normalize_word_breaks(t) ==
    IF ~Truthy(t) THEN t ELSE PyStr(Substitute(t.val))

-----------------------------------------------------------------------------
(* Inputs of the normalizer *)

Chars == {"a", "-", " ", "\n"}

RECURSIVE SeqsUpTo(_, _)
\* all sequences over S of length at most n
SeqsUpTo(S, n) ==
    IF n = 0 THEN {<<>>}
    ELSE LET shorter == SeqsUpTo(S, n - 1)
         IN shorter \cup {Append(q, c) : q \in {r \in shorter : Len(r) = n - 1}, c \in S}

FooBar == <<"f", "o", "o", " ", "-", " ", "b", "a", "r">>
Foobar == <<"f", "o", "o", "b", "a", "r">>
CompeTence == <<"c", "o", "m", "p", "e", "-", "\n", "t", "e", "n", "c", "e">>
Competence == <<"c", "o", "m", "p", "e", "t", "e", "n", "c", "e">>

Suffixes == {<<>>} \cup {<<c>> : c \in Chars}

\* one stretch of up to three hyphens and whitespace characters between
\* letters and full stops (a full stop is neither \w nor \s)
GapInputs ==
    {PyStr(p \o g \o q) :
        p \in SeqsUpTo({"a", "."}, 2),
        g \in SeqsUpTo({"-", " ", "\n"}, 3),
        q \in SeqsUpTo({"a", "."}, 2)}

NormInputs ==
    {PyNone}
    \cup GapInputs
    \cup {PyStr(s) : s \in SeqsUpTo(Chars, MaxLen)}
    \cup {PyStr(p \o FooBar \o q) : p \in SeqsUpTo(Chars, MaxPreFoo), q \in Suffixes}
    \cup {PyStr(p \o CompeTence) : p \in SeqsUpTo(Chars, MaxPreCompe)}

-----------------------------------------------------------------------------
(* The normalizer called as a library function *)

InitNormalize ==
    /\ text \in NormInputs
    /\ result = Unset
    /\ npc = "call"
    /\ IdleRender
    /\ IdleExtract
    /\ IdleSearch
    /\ IdleIngest

\* result = normalize_word_breaks(text)
Normalize ==
    /\ npc = "call"
    /\ result' = normalize_word_breaks(text)
    /\ npc' = "returned"
    /\ UNCHANGED text
    /\ UNCHANGED <<rvars, evars, svars, ivars>>

\* the value returned is normalized again
Renormalize ==
    /\ npc \in {"returned", "again"}
    /\ text' = result
    /\ result' = normalize_word_breaks(result)
    /\ npc' = "again"
    /\ UNCHANGED <<rvars, evars, svars, ivars>>

NextNormalize == Normalize \/ Renormalize

SpecNormalize == InitNormalize /\ [][NextNormalize]_vars

-----------------------------------------------------------------------------
(* Properties of normalize_word_breaks *)

Returned == npc \in {"returned", "again"}

Contains(s, sub) ==
    \E i \in 1..(Len(s) - Len(sub) + 1) : SubSeq(s, i, i + Len(sub) - 1) = sub

HasNewlineRun(s, n) ==
    \E i \in 1..(Len(s) - n + 1) : \A j \in i..(i + n - 1) : s[j] = "\n"

RECURSIVE NewlineRuns(_, _)
\* the lengths of the maximal runs of newlines of s from index i, in order
NewlineRuns(s, i) ==
    IF i > Len(s) THEN <<>>
    ELSE IF s[i] = "\n"
         THEN LET n == RunLen(Newline, s, i)
              IN <<n>> \o NewlineRuns(s, i + n)
         ELSE NewlineRuns(s, i + 1)

CapAtTwo(runs) == [k \in DOMAIN runs |-> IF runs[k] >= 3 THEN 2 ELSE runs[k]]

\* s[i] is whitespace whose maximal whitespace stretch touches a hyphen
RECURSIVE StretchStart(_, _)
StretchStart(s, i) ==
    IF i > 1 /\ s[i - 1] \in Space THEN StretchStart(s, i - 1) ELSE i
NextToHyphen(s, i) ==
    /\ s[i] \in Space
    /\ LET l == StretchStart(s, i)
           r == l + RunLen(Space, s, l) - 1
       IN \/ (l > 1 /\ s[l - 1] = "-")
          \/ (r < Len(s) /\ s[r + 1] = "-")

\* s without its hyphens and the whitespace stretches touching them
AwayFromHyphens(s) ==
    SelectSeq([i \in DOMAIN s |-> <<s[i], s[i] = "-" \/ NextToHyphen(s, i)>>],
              LAMBDA p : ~p[2])

\* s with every newline that follows two newlines dropped
CollapseRuns(s) ==
    SelectSeq([i \in DOMAIN s |->
                  <<s[i], i > 2 /\ s[i] = "\n" /\ s[i - 1] = "\n" /\ s[i - 2] = "\n">>],
              LAMBDA p : ~p[2])

Chars1(ps) == [k \in DOMAIN ps |-> ps[k][1]]

\* C1: every text containing "foo - bar" is normalized to a text that
\* contains "foobar" and does not contain "foo - bar".
C1_FooBarMerged ==
    (Returned /\ text.type = "str" /\ Contains(text.val, FooBar))
        => (Contains(result.val, Foobar) /\ ~Contains(result.val, FooBar))

\* C2: normalize_word_breaks is idempotent: normalizing a value it returned
\* gives that value back.
C2_Idempotent == (npc = "again") => (result = text)

\* C3: every text containing "compe-\ntence" is normalized to a text that
\* contains "competence".
C3_CompetenceMerged ==
    (Returned /\ text.type = "str" /\ Contains(text.val, CompeTence))
        => Contains(result.val, Competence)

\* C4 as claimed: the newline runs of the output are those of the input, in
\* order, each run of 3 or more cut to 2 and each run of 1 or 2 kept, also
\* next to a hyphen between two words.
C4_EveryRunKept ==
    (Returned /\ text.type = "str" /\ text.val # <<>>)
        => /\ NewlineRuns(result.val, 1) = CapAtTwo(NewlineRuns(text.val, 1))
           /\ ~HasNewlineRun(result.val, 3)

\* C4 as amended: the output has no run of 3 or more newlines, and outside
\* the whitespace that touches a hyphen the output is the input with each
\* run of 3 or more newlines cut to 2 and nothing else changed (whitespace
\* touching a hyphen may be deleted with the hyphen).
C4_RunsCollapsedAwayFromHyphens ==
    (Returned /\ text.type = "str" /\ text.val # <<>>)
        => /\ ~HasNewlineRun(result.val, 3)
           /\ Chars1(AwayFromHyphens(result.val))
                = Chars1(CollapseRuns(Chars1(AwayFromHyphens(text.val))))

C4_Witness ==
    /\ npc = "returned"
    /\ text = PyStr(<<"a", "\n", "\n", "\n", "a">>)
    /\ result = PyStr(<<"a", "\n", "\n", "a">>)

\* C5: a falsy argument (None or the empty string) is returned as it is,
\* with no error and no substitution.
C5_FalsyUnchanged == (Returned /\ ~Truthy(text)) => (result = text)

C5_Witness == npc = "returned" /\ text = PyNone /\ result = PyNone

\* the hyphens and the whitespace
Gap == Hyphen \cup Space

\* the indices of the characters of s outside Gap, in order
Solid(s) == SelectSeq([i \in DOMAIN s |-> i], LAMBDA i : s[i] \notin Gap)

\* the stretch of Gap characters of s after its k-th character outside Gap
\* (before the first one for k = 0)
Slot(s, k) ==
    LET at == Solid(s)
        from == IF k = 0 THEN 1 ELSE at[k] + 1
        to == IF k = Len(at) THEN Len(s) ELSE at[k + 1] - 1
    IN SubSeq(s, from, to)

\* how many hyphens s holds
Hyphens(s) == Len(SelectSeq(s, LAMBDA c : c \in Hyphen))

RECURSIVE IsSubsequence(_, _)
\* a is b with some characters deleted
IsSubsequence(a, b) ==
    IF a = <<>> THEN TRUE
    ELSE IF b = <<>> THEN FALSE
    ELSE IF Head(a) = Head(b) THEN IsSubsequence(Tail(a), Tail(b))
    ELSE IsSubsequence(a, Tail(b))

\* C21: normalize_word_breaks only deletes hyphens and whitespace: the
\* characters of t that are neither are all in the output, unchanged and in
\* order; between them the output holds what t holds there with some
\* characters deleted and none inserted; and a stretch loses a hyphen only
\* when a word character is right before the stretch and a word character is
\* right after it.
C21_OnlyGapCharactersDeleted ==
    (Returned /\ text.type = "str") =>
        LET t == text.val
            r == result.val
            at == Solid(t)
        IN /\ result.type = "str"
           /\ [k \in DOMAIN Solid(r) |-> r[Solid(r)[k]]] = [k \in DOMAIN at |-> t[at[k]]]
           /\ \A k \in 0..Len(at) :
                  /\ IsSubsequence(Slot(r, k), Slot(t, k))
                  /\ Hyphens(Slot(r, k)) < Hyphens(Slot(t, k))
                         => /\ k \in 1..(Len(at) - 1)
                            /\ t[at[k]] \in Word
                            /\ t[at[k + 1]] \in Word

\* ".a - a." becomes ".aa.": the hyphen between the words goes
C21_Witness ==
    /\ npc = "returned"
    /\ text = PyStr(<<".", "a", " ", "-", " ", "a", ".">>)
    /\ result = PyStr(<<".", "a", "a", ".">>)

-----------------------------------------------------------------------------
(* Strings of the page builder.  A Python str is a sequence of tokens: the  *)
(* literal pieces of the f-strings (tags and fixed text, each one token)    *)
(* and, for interpolated values, one token per character.                   *)

RECURSIVE Join(_, _)
\* sep.join(strs)
Join(strs, sep) ==
    IF strs = <<>> THEN <<>>
    ELSE IF Len(strs) = 1 THEN strs[1]
    ELSE strs[1] \o <<sep>> \o Join(Tail(strs), sep)

RECURSIVE Concat(_)
\* the lists of strs, concatenated into one list
Concat(lists) ==
    IF lists = <<>> THEN <<>> ELSE Head(lists) \o Concat(Tail(lists))

Digits == <<"0", "1", "2", "3", "4", "5", "6", "7", "8", "9">>

RECURSIVE Decimal(_)
\* str(n) of an int n >= 0, as an f-string interpolates it
Decimal(n) ==
    IF n < 10 THEN <<Digits[n + 1]>>
    ELSE Decimal(n \div 10) \o <<Digits[(n % 10) + 1]>>

RECURSIVE LStrip(_)
LStrip(s) == IF s # <<>> /\ Head(s) \in Space THEN LStrip(Tail(s)) ELSE s
RECURSIVE RStrip(_)
RStrip(s) ==
    IF s # <<>> /\ s[Len(s)] \in Space THEN RStrip(SubSeq(s, 1, Len(s) - 1)) ELSE s
\* str.strip()
Strip(s) == RStrip(LStrip(s))

\* html.escape(s, quote=False): the quotes are left alone
EscapeCharNoQuote(c) ==
    CASE c = "&" -> "&amp;"
      [] c = "<" -> "&lt;"
      [] c = ">" -> "&gt;"
      [] OTHER -> c

\* html.escape(s) replaces & < > " ' (quote=True is the default)
EscapeChar(c) ==
    CASE c = "&" -> "&amp;"
      [] c = "<" -> "&lt;"
      [] c = ">" -> "&gt;"
      [] c = "\"" -> "&quot;"
      [] c = "'" -> "&#x27;"
      [] OTHER -> c

escape(s) == [i \in DOMAIN s |-> EscapeChar(s[i])]

TableOpen ==
    "<table border=\"1\" cellpadding=\"5\" cellspacing=\"0\" style=\"border-collapse: collapse; margin: 10px 0;\">"
PreOpen == "<pre style=\"white-space: pre-wrap; font-family: Arial, sans-serif;\">"
TextDivOpen == "<div class=\"text-content\">"
TablesDivOpen == "<div class=\"tables\">"
PageDivOpen == "<div class=\"page\" data-page=\""
TableDivOpen == "<div class=\"table\" data-table=\""
AttrClose == "\">"
Rule == "<hr style=\"margin: 20px 0;\">"

-----------------------------------------------------------------------------
(* table_to_html *)

\* `str(cell).strip() if cell else ""` for a cell that is None or a str
CellText(cell) == IF Truthy(cell) THEN Strip(cell.val) ELSE <<>>

\* one  <th>..</th>  or  <td>..</td>  line
CellLine(cell, row_idx) ==
    <<IF row_idx = 0 THEN "    <th>" ELSE "    <td>">>
    \o escape(CellText(cell))
    \o <<IF row_idx = 0 THEN "</th>" ELSE "</td>">>

\* the lines of one row with its None cells left out
RowLinesSkipNone(row, row_idx) ==
    LET kept == SelectSeq(row, LAMBDA cell : cell # PyNone)
    IN <<(<<"  <tr>">>)>>
       \o [c \in DOMAIN kept |-> CellLine(kept[c], row_idx)]
       \o <<(<<"  </tr>">>)>>

\* the lines of one row (row_idx counts from 0)
RowLines(row, row_idx) ==
    <<(<<"  <tr>">>)>>
    \o [c \in DOMAIN row |-> CellLine(row[c], row_idx)]
    \o <<(<<"  </tr>">>)>>

\* `not table or not table[0]`
EmptyTable(table) == table = <<>> \/ table[1] = <<>>

table_to_html(table) ==
    IF EmptyTable(table) THEN <<>>
    ELSE Join(<<(<<TableOpen>>)>>
              \o Concat([r \in DOMAIN table |-> RowLines(table[r], r - 1)])
              \o <<(<<"</table>">>)>>, "\n")

-----------------------------------------------------------------------------
(* pages_to_html *)

\* the text block, emitted whatever the text
TextBlockAlways(page) ==
    << <<TextDivOpen>>,
       <<PreOpen>> \o escape(page.text) \o <<"</pre>">>,
       <<"</div>">> >>

\* lines 117-121 and 140-144: the text block of a page
TextBlock(page) ==
    IF page.text # <<>>
    THEN << <<TextDivOpen>>,
            <<PreOpen>> \o escape(page.text) \o <<"</pre>">>,
            <<"</div>">> >>
    ELSE <<>>

\* lines 123-127: the tables block of a page's own document
TablesBlockSplit(page) ==
    IF page.tables # <<>>
    THEN <<(<<TablesDivOpen>>)>>
         \o [t \in DOMAIN page.tables |-> table_to_html(page.tables[t])]
         \o <<(<<"</div>">>)>>
    ELSE <<>>

\* lines 146-152: the tables block of a page section
TablesBlockCombined(page) ==
    IF page.tables # <<>>
    THEN <<(<<TablesDivOpen>>)>>
         \o Concat([t \in DOMAIN page.tables |->
                      << <<TableDivOpen>> \o Decimal(t) \o <<AttrClose>>,
                         table_to_html(page.tables[t]),
                         <<"</div>">> >>])
         \o <<(<<"</div>">>)>>
    ELSE <<>>

\* lines 112-130: the document of one page
PageDocument(page, ttl) ==
    Join(<< <<"<html>", "<head>", "<title>">> \o ttl \o <<" - Page ">>
               \o Decimal(page.page_num) \o <<"</title>", "</head>", "<body>">>,
            <<"<h1>">> \o ttl \o <<"</h1>">>,
            <<"<h2>", "Page ">> \o Decimal(page.page_num) \o <<"</h2>">> >>
         \o TextBlock(page)
         \o TablesBlockSplit(page)
         \o <<(<<"</body>", "</html>">>)>>, "\n")

\* lines 137-155: the section of one page
PageSection(page) ==
    << <<PageDivOpen>> \o Decimal(page.page_num) \o <<AttrClose>>,
       <<"<h2>", "Page ">> \o Decimal(page.page_num) \o <<"</h2>">> >>
    \o TextBlock(page)
    \o TablesBlockCombined(page)
    \o << <<"</div>">>, <<Rule>> >>

\* the pages in increasing page_num (a stable sort)
SortedByPageNum(pages) ==
    LET nums == {pages[i].page_num : i \in DOMAIN pages}
        Rank(i) == Cardinality({j \in DOMAIN pages :
                       \/ pages[j].page_num < pages[i].page_num
                       \/ (pages[j].page_num = pages[i].page_num /\ j < i)}) + 1
    IN [k \in DOMAIN pages |-> pages[CHOOSE i \in DOMAIN pages : Rank(i) = k]]

\* pages_to_html that sorts the pages by page_num first
pages_to_html_sorted(pages, ttl, split) ==
    LET ps == SortedByPageNum(pages)
    IN IF split
       THEN [i \in DOMAIN ps |-> PageDocument(ps[i], ttl)]
       ELSE << <<"<html>", "<head>", "<title>">> \o ttl
                  \o <<"</title>", "</head>", "<body>">>,
               <<"<h1>">> \o ttl \o <<"</h1>">> >>
            \o Concat([i \in DOMAIN ps |-> PageSection(ps[i])])
            \o <<(<<"</body>", "</html>">>)>>

\* pages_to_html that writes no document for a page with nothing on it
pages_to_html_skip_blank(pages, ttl, split) ==
    LET ps == SelectSeq(pages, LAMBDA pg : pg.text # <<>> \/ pg.tables # <<>>)
    IN IF split
       THEN [i \in DOMAIN ps |-> PageDocument(ps[i], ttl)]
       ELSE << <<"<html>", "<head>", "<title>">> \o ttl
                  \o <<"</title>", "</head>", "<body>">>,
               <<"<h1>">> \o ttl \o <<"</h1>">> >>
            \o Concat([i \in DOMAIN pages |-> PageSection(pages[i])])
            \o <<(<<"</body>", "</html>">>)>>

\* pages_to_html that escapes the title as it escapes the page text
pages_to_html_escaped_title(pages, ttl, split) ==
    IF split
    THEN [i \in DOMAIN pages |-> PageDocument(pages[i], escape(ttl))]
    ELSE << <<"<html>", "<head>", "<title>">> \o escape(ttl)
               \o <<"</title>", "</head>", "<body>">>,
            <<"<h1>">> \o escape(ttl) \o <<"</h1>">> >>
         \o Concat([i \in DOMAIN pages |-> PageSection(pages[i])])
         \o <<(<<"</body>", "</html>">>)>>

pages_to_html(pages, ttl, split) ==
    IF split
    THEN [i \in DOMAIN pages |-> PageDocument(pages[i], ttl)]
    ELSE << <<"<html>", "<head>", "<title>">> \o ttl
               \o <<"</title>", "</head>", "<body>">>,
            <<"<h1>">> \o ttl \o <<"</h1>">> >>
         \o Concat([i \in DOMAIN pages |-> PageSection(pages[i])])
         \o <<(<<"</body>", "</html>">>)>>

\* main, lines 193-204: the documents written, one per part when split,
\* else the parts joined by newlines
Documents(parts, split) ==
    IF split THEN parts ELSE <<Join(parts, "\n")>>

-----------------------------------------------------------------------------
(* Inputs of the page builder *)

Special == {"&", "<", ">", "\"", "'"}

X == PyStr(<<"x">>)
Y == PyStr(<<"y">>)

Cells ==
    {PyNone, PyStr(<<>>), X, Y, PyStr(<<" ", "x", " ">>),
     PyStr(<<"<", "&", ">">>), PyStr(<<"\"", "'">>)}

\* no rows; an empty first row; one cell; two rows; an empty second row
Tables ==
    {<<>>, <<(<<>>)>>, << <<>>, <<X>> >>}
    \cup {<<(<<c>>)>> : c \in Cells}
    \cup {<< <<X, Y>>, <<Y, PyNone>> >>, << <<X>>, <<>> >>}

PageTexts ==
    {<<>>, <<"x">>, <<"x", "\n", "y">>, <<"<", "b", ">">>}
    \cup {<<c>> : c \in Special}

\* plain titles, a title with a markup character, a title with a closing
\* tag in it (the tag is one token)
Titles == {<<"D", "o", "c">>, <<"R", "&", "D">>, <<"T", "</h1>">>}

PageNums == {1, 2, 12}

\* pages of little content, for the inputs of several pages
PlainPages ==
    [page_num : PageNums, text : {<<>>, <<"x">>},
     tables : {<<>>, <<(<<(<<X>>)>>)>>}]

\* pages of rich content, for the inputs of one page
RichPages ==
    [page_num : {1}, text : PageTexts, tables : {<<>>}]
    \cup [page_num : {1}, text : {<<>>, <<"<", "b", ">">>},
          tables : SeqsUpTo(Tables, MaxTables) \ {<<>>}]

RenderInputs ==
    SeqsUpTo(PlainPages, MaxPages) \cup {<<pg>> : pg \in RichPages}

-----------------------------------------------------------------------------
(* The page builder called as a library function *)

InitRender ==
    /\ pages_data \in RenderInputs
    /\ title \in Titles
    /\ split_pages \in BOOLEAN
    /\ html_parts = <<>>
    /\ rpc = "call"
    /\ IdleNormalize
    /\ IdleExtract
    /\ IdleSearch
    /\ IdleIngest

\* html_parts = pages_to_html(pages_data, title, split_pages)
Render ==
    /\ rpc = "call"
    /\ html_parts' = pages_to_html(pages_data, title, split_pages)
    /\ rpc' = "returned"
    /\ UNCHANGED <<pages_data, title, split_pages>>
    /\ UNCHANGED <<nvars, evars, svars, ivars>>

NextRender == Render

SpecRender == InitRender /\ [][NextRender]_vars

-----------------------------------------------------------------------------
(* Properties of pages_to_html *)

Rendered == rpc = "returned"

\* the documents produced
Docs == Documents(html_parts, split_pages)

Count(s, S) == Cardinality({i \in DOMAIN s : s[i] \in S})

Positions(s, tok) == SelectSeq([i \in DOMAIN s |-> i], LAMBDA i : s[i] = tok)

\* the element a token opens or closes ("" when it does neither)
ElementOpened(tok) ==
    CASE tok = "<html>" -> "html"
      [] tok = "<head>" -> "head"
      [] tok = "<title>" -> "title"
      [] tok = "<body>" -> "body"
      [] tok = "<h1>" -> "h1"
      [] tok = "<h2>" -> "h2"
      [] tok \in {TextDivOpen, TablesDivOpen, PageDivOpen, TableDivOpen} -> "div"
      [] tok = PreOpen -> "pre"
      [] tok = TableOpen -> "table"
      [] tok = "  <tr>" -> "tr"
      [] tok = "    <th>" -> "th"
      [] tok = "    <td>" -> "td"
      [] OTHER -> ""

ElementClosed(tok) ==
    CASE tok = "</html>" -> "html"
      [] tok = "</head>" -> "head"
      [] tok = "</title>" -> "title"
      [] tok = "</body>" -> "body"
      [] tok = "</h1>" -> "h1"
      [] tok = "</h2>" -> "h2"
      [] tok = "</div>" -> "div"
      [] tok = "</pre>" -> "pre"
      [] tok = "</table>" -> "table"
      [] tok = "  </tr>" -> "tr"
      [] tok = "</th>" -> "th"
      [] tok = "</td>" -> "td"
      [] OTHER -> ""

\* What a stretch of tokens leaves unmatched: the elements it closes without
\* having opened them and the elements it leaves open, both in order; ok is
\* FALSE when a closing tag inside it closes another element than the
\* innermost open one.
NoTags == [ok |-> TRUE, closes |-> <<>>, opens |-> <<>>]

Unmatched(tok) ==
    IF ElementOpened(tok) # ""
    THEN [ok |-> TRUE, closes |-> <<>>, opens |-> <<ElementOpened(tok)>>]
    ELSE IF ElementClosed(tok) # ""
    THEN [ok |-> TRUE, closes |-> <<ElementClosed(tok)>>, opens |-> <<>>]
    ELSE NoTags

\* a stretch followed by another: the second's closes meet the first's opens
Meet(a, b) ==
    LET k == IF Len(a.opens) < Len(b.closes) THEN Len(a.opens) ELSE Len(b.closes)
    IN [ok |-> /\ a.ok
               /\ b.ok
               /\ \A m \in 1..k : a.opens[Len(a.opens) - m + 1] = b.closes[m],
        closes |-> a.closes \o SubSeq(b.closes, k + 1, Len(b.closes)),
        opens |-> SubSeq(a.opens, 1, Len(a.opens) - k) \o b.opens]

RECURSIVE Residue(_, _, _)
Residue(doc, lo, hi) ==
    IF lo > hi THEN NoTags
    ELSE IF lo = hi THEN Unmatched(doc[lo])
    ELSE LET mid == (lo + hi) \div 2
         IN Meet(Residue(doc, lo, mid), Residue(doc, mid + 1, hi))

\* every closing tag closes the innermost open element and nothing stays open
Balanced(doc) == Residue(doc, 1, Len(doc)) = NoTags

\* the title holds no markup: no markup-significant character and no tag
MarkupFree(s) ==
    \A k \in DOMAIN s :
        s[k] \notin Special /\ ElementOpened(s[k]) = "" /\ ElementClosed(s[k]) = ""

\* the part of the output of each page: its document, or its section of the
\* combined document (from its opening div up to the next section's)
Sections(doc) ==
    LET st == Positions(doc, PageDivOpen)
    IN [k \in DOMAIN st |->
           SubSeq(doc, st[k], IF k < Len(st) THEN st[k + 1] - 1 ELSE Len(doc))]

PageParts ==
    IF split_pages THEN html_parts ELSE Sections(Join(html_parts, "\n"))

Heading(n) == <<"<h2>", "Page ">> \o Decimal(n) \o <<"</h2>">>

BlankPage(pg) == pg.text = <<>> /\ pg.tables = <<>>

\* every wrapper div of tables holds a table before any div closes
NoEmptyShell(doc) ==
    \A i \in DOMAIN doc :
        doc[i] \in {TablesDivOpen, TableDivOpen}
            => \E j \in (i + 1)..Len(doc) :
                   /\ doc[j] = TableOpen
                   /\ \A k \in (i + 1)..(j - 1) : doc[k] # "</div>"

NonEmptyTables(pages) ==
    Concat([i \in DOMAIN pages |->
               SelectSeq(pages[i].tables, LAMBDA t : ~EmptyTable(t))])

\* C6: an empty table (no rows, or an empty first row) leaves nothing in the
\* output: no table markup and no empty shell or wrapper.
C6_EmptyTableOmitted ==
    Rendered =>
        \A k \in DOMAIN Docs :
            /\ Count(Docs[k], {TableOpen}) <= Len(NonEmptyTables(pages_data))
            /\ NoEmptyShell(Docs[k])

C8_SplitOneDocumentPerPage ==
    (Rendered /\ split_pages) =>
        /\ Len(html_parts) = Len(pages_data)
        /\ \A i \in DOMAIN pages_data :
               LET d == html_parts[i]
               IN /\ Count(d, {"<html>"}) = 1
                  /\ SubSeq(d, 1, 3 + Len(title)) = <<"<html>", "<head>", "<title>">> \o title
                  /\ SubSeq(d, Len(d) - 1, Len(d)) = <<"</body>", "</html>">>
                  /\ Contains(d, <<"<h1>">> \o title \o <<"</h1>">>)
                  /\ Count(d, {"<h2>"}) = 1
                  /\ Contains(d, Heading(pages_data[i].page_num))

C8_Witness ==
    /\ Rendered
    /\ split_pages
    /\ Len(pages_data) = 2
    /\ Len(html_parts) = 2
    /\ BlankPage(pages_data[1])
    /\ html_parts[1] # html_parts[2]

RECURSIVE CellsOf(_, _)
\* the contents of the table cells of a part, in order, from token i
CellsOf(part, i) ==
    IF i > Len(part) THEN <<>>
    ELSE IF part[i] \in {"    <th>", "    <td>"}
         THEN LET j == CHOOSE m \in (i + 1)..Len(part) :
                           /\ part[m] \in {"</th>", "</td>"}
                           /\ \A k \in (i + 1)..(m - 1) : part[k] \notin {"</th>", "</td>"}
              IN <<SubSeq(part, i + 1, j - 1)>> \o CellsOf(part, j + 1)
         ELSE CellsOf(part, i + 1)

\* the cell texts of a page, table after table, row after row
PageCellTexts(pg) ==
    Concat([t \in DOMAIN pg.tables |->
               IF EmptyTable(pg.tables[t]) THEN <<>>
               ELSE Concat([r \in DOMAIN pg.tables[t] |->
                               [c \in DOMAIN pg.tables[t][r] |->
                                   CellText(pg.tables[t][r][c])]])])

\* C9: the output has one part per page record, in the order of the input
\* (whatever the page_num values), each part headed by its page_num and, in
\* a combined document, opened with it as data-page; the text and the table
\* cells of a page are in its part, the cells in extraction order.
C9_InputOrderKept ==
    Rendered =>
        /\ Len(PageParts) = Len(pages_data)
        /\ \A i \in DOMAIN pages_data :
               LET pg == pages_data[i]
                   part == PageParts[i]
               IN /\ Count(part, {"<h2>"}) = 1
                  /\ Contains(part, Heading(pg.page_num))
                  /\ ~split_pages =>
                         SubSeq(part, 1, 2 + Len(Decimal(pg.page_num)))
                             = <<PageDivOpen>> \o Decimal(pg.page_num) \o <<AttrClose>>
                  /\ pg.text # <<>> =>
                         Contains(part, <<PreOpen>> \o escape(pg.text) \o <<"</pre>">>)
                  /\ pg.text = <<>> => Count(part, {PreOpen}) = 0
                  /\ CellsOf(part, 1)
                         = [c \in DOMAIN PageCellTexts(pg) |-> escape(PageCellTexts(pg)[c])]

C9_Witness ==
    /\ Rendered
    /\ ~split_pages
    /\ Len(pages_data) = 2
    /\ pages_data[1].page_num = 12
    /\ pages_data[2].page_num = 2
    /\ pages_data[1].tables # <<>>
    /\ Len(PageParts) = 2

Entities == {"&amp;", "&lt;", "&gt;", "&quot;", "&#x27;"}

\* the characters of the text and of the rendered cells of all pages
ContentChars(pages) ==
    Concat([i \in DOMAIN pages |->
               pages[i].text \o Concat(PageCellTexts(pages[i]))])

\* C10: page text and cell content are escaped: the only markup-significant
\* characters of a document are those of the two copies of the title, and
\* each such character of the content is in the output as an entity.
C10_ContentEscaped ==
    Rendered =>
        /\ \A k \in DOMAIN Docs :
               Count(Docs[k], Special) = 2 * Count(title, Special)
        /\ Count(Concat(Docs), Entities) = Count(ContentChars(pages_data), Special)

C10_Witness ==
    /\ Rendered
    /\ Len(pages_data) = 1
    /\ pages_data[1].text = <<"<", "b", ">">>
    /\ pages_data[1].tables = <<(<<(<<PyStr(<<"\"", "'">>)>>)>>)>>
    /\ Count(Docs[1], {"&lt;"}) = 1
    /\ Count(Docs[1], {"&#x27;"}) = 1

-----------------------------------------------------------------------------
(* Properties of table_to_html, read off the documents it is written into *)

\* the stretches of doc from each token open up to the next token close
Spans(doc, open, close) ==
    LET st == Positions(doc, open)
    IN [k \in DOMAIN st |->
           SubSeq(doc, st[k],
                  CHOOSE m \in st[k]..Len(doc) :
                      /\ doc[m] = close
                      /\ \A j \in st[k]..(m - 1) : doc[j] # close)]

\* the table elements of the output, in order
TablesOut == Spans(Concat(Docs), TableOpen, "</table>")

\* the tables of the input that table_to_html renders, in order
TablesIn == NonEmptyTables(pages_data)

\* C11: a non-empty table of rows r0..rk is rendered as exactly k+1 rows in
\* input order, row i holding exactly len(ri) cells in input order, the
\* cells of the first row all th and those of the later rows all td; a None
\* cell is rendered as an empty cell, not dropped.
C11_TableGrid ==
    Rendered =>
        /\ Len(TablesOut) = Len(TablesIn)
        /\ \A k \in DOMAIN TablesIn :
               LET rows == Spans(TablesOut[k], "  <tr>", "  </tr>")
               IN /\ Len(rows) = Len(TablesIn[k])
                  /\ \A r \in DOMAIN TablesIn[k] :
                         LET row == TablesIn[k][r]
                             head == IF r = 1 THEN Len(row) ELSE 0
                         IN /\ CellsOf(rows[r], 1)
                                  = [c \in DOMAIN row |-> escape(CellText(row[c]))]
                            /\ Count(rows[r], {"    <th>"}) = head
                            /\ Count(rows[r], {"</th>"}) = head
                            /\ Count(rows[r], {"    <td>"}) = Len(row) - head
                            /\ Count(rows[r], {"</td>"}) = Len(row) - head

C11_Witness ==
    /\ Rendered
    /\ TablesIn = <<(<< <<X, Y>>, <<Y, PyNone>> >>)>>
    /\ Len(TablesOut) = 1
    /\ LET rows == Spans(TablesOut[1], "  <tr>", "  </tr>")
       IN /\ Len(rows) = 2
          /\ CellsOf(rows[2], 1) = << <<"y">>, <<>> >>
          /\ Count(rows[1], {"    <th>"}) = 2
          /\ Count(rows[2], {"    <td>"}) = 2

\* a document with balanced tags and no markup-significant character left
\* as it is in its text
WellFormed(doc) == Balanced(doc) /\ Count(doc, Special) = 0

\* the title element of the k-th document
TitleElement(k) ==
    <<"<title>">> \o title
    \o (IF split_pages
        THEN <<" - Page ">> \o Decimal(pages_data[k].page_num)
        ELSE <<>>)
    \o <<"</title>">>

\* C22: the title is written as it is, not escaped, in the title element
\* and in the h1 heading of every document produced (of each page's document
\* when split); so, when documents are produced, they are all well-formed
\* exactly when the title holds no markup-significant character and no tag.
C22_TitleVerbatim ==
    Rendered =>
        /\ \A k \in DOMAIN Docs :
               /\ Contains(Docs[k], TitleElement(k))
               /\ Contains(Docs[k], <<"<h1>">> \o title \o <<"</h1>">>)
        /\ Docs # <<>>
               => (MarkupFree(title) <=> \A k \in DOMAIN Docs : WellFormed(Docs[k]))

\* the title "R&D" in the two documents of two pages
C22_Witness ==
    /\ Rendered
    /\ split_pages
    /\ title = <<"R", "&", "D">>
    /\ Len(html_parts) = 2
    /\ Contains(html_parts[2], <<"<h1>", "R", "&", "D", "</h1>">>)
    /\ ~WellFormed(html_parts[2])

-----------------------------------------------------------------------------
(* extract_page_from_content (src/search_tool.py) *)

\* most fragments joined into one chunk content
MaxFrags == 3

\* characters matched by \d
DigitChars == {Digits[k] : k \in DOMAIN Digits}

PyInt(n) == [type |-> "int", val |-> n]
ValueError == [type |-> "raise", exc |-> "ValueError"]

\* sys.get_int_max_str_digits(): int() raises ValueError on a longer str
MaxStrDigits == 4300

RECURSIVE DecimalValue(_)
\* the number written by the decimal digits ds
DecimalValue(ds) ==
    IF ds = <<>> THEN 0
    ELSE 10 * DecimalValue(SubSeq(ds, 1, Len(ds) - 1))
         + (CHOOSE n \in 0..9 : Digits[n + 1] = ds[Len(ds)])

\* int(ds) for a str of decimal digits
int(ds) == IF Len(ds) > MaxStrDigits THEN ValueError ELSE PyInt(DecimalValue(ds))

\* re.search that returns the match at the rightmost index instead
re_search_last(pat, s) ==
    LET starts == {i \in DOMAIN s : MatchFrom(pat, 1, s, i) # <<>>}
    IN IF starts = {} THEN <<>>
       ELSE MatchFrom(pat, 1, s, CHOOSE i \in starts : \A j \in starts : i >= j)

\* re.search: the match at the leftmost index that has one (<<>> for None)
re_search(pat, s) ==
    LET starts == {i \in DOMAIN s : MatchFrom(pat, 1, s, i) # <<>>}
    IN IF starts = {} THEN <<>>
       ELSE MatchFrom(pat, 1, s, CHOOSE i \in starts : \A j \in starts : i <= j)

\* r'Page\s+(\d+)' under re.IGNORECASE
PatBarePage ==
    <<One({"P", "p"}), One({"A", "a"}), One({"G", "g"}), One({"E", "e"}),
      Plus(Space), Group(1, Plus(DigitChars))>>
\* r'##\s*Page\s+(\d+)' under re.IGNORECASE
PatHeadingPage == <<One({"#"}), One({"#"}), Star(Space)>> \o PatBarePage

\* the patterns with the bare marker tried first
patterns_bare_first == <<PatBarePage, PatHeadingPage>>

\* lines 26-29
patterns == <<PatHeadingPage, PatBarePage>>

RECURSIVE TryPatterns(_, _)
\* lines 31-39: the int of group 1 of the first pattern that matches and
\* whose digits int() accepts; None when there is no such pattern
TryPatterns(pats, s) ==
    IF pats = <<>> THEN PyNone
    ELSE LET match == re_search(Head(pats), s)
             n == IF match = <<>> THEN PyNone
                  ELSE int(Captured(Head(pats), s, match, 1))
         IN IF n.type = "int" THEN n ELSE TryPatterns(Tail(pats), s)

extract_page_from_content(c) ==
    IF ~Truthy(c) THEN PyNone ELSE TryPatterns(patterns, c.val)

-----------------------------------------------------------------------------
(* Inputs of extract_page_from_content *)

\* "## Page 7\nSome text"
MarkedExample ==
    <<"#", "#", " ", "P", "a", "g", "e", " ", "7", "\n",
      "S", "o", "m", "e", " ", "t", "e", "x", "t">>
\* "no marker here"
UnmarkedExample ==
    <<"n", "o", " ", "m", "a", "r", "k", "e", "r", " ", "h", "e", "r", "e">>

\* "## Page 7", "Page 3", "page\n12", "##PAGE 05", "## Page", "Page", and
\* single characters
Fragments ==
    {<<"#", "#", " ", "P", "a", "g", "e", " ", "7">>,
     <<"P", "a", "g", "e", " ", "3">>,
     <<"p", "a", "g", "e", "\n", "1", "2">>,
     <<"#", "#", "P", "A", "G", "E", " ", "0", "5">>,
     <<"#", "#", " ", "P", "a", "g", "e">>,
     <<"P", "a", "g", "e">>,
     <<"x">>, <<" ">>, <<"#">>, <<"4">>}

Contents ==
    {PyNone, PyStr(MarkedExample), PyStr(UnmarkedExample)}
    \cup {PyStr(Concat(fs)) : fs \in SeqsUpTo(Fragments, MaxFrags)}

-----------------------------------------------------------------------------
(* extract_page_from_content called as a library function *)

InitExtract ==
    /\ content \in Contents
    /\ page_number = Unset
    /\ epc = "call"
    /\ IdleNormalize
    /\ IdleRender
    /\ IdleSearch
    /\ IdleIngest

\* page_number = extract_page_from_content(content)
Extract ==
    /\ epc = "call"
    /\ page_number' = extract_page_from_content(content)
    /\ epc' = "returned"
    /\ UNCHANGED content
    /\ UNCHANGED <<nvars, rvars, svars, ivars>>

NextExtract == Extract

SpecExtract == InitExtract /\ [][NextExtract]_vars

-----------------------------------------------------------------------------
(* Properties of extract_page_from_content *)

\* the digits of the bare marker "Page N" whose "P" is s[j] (<<>> when s[j]
\* starts no marker)
MarkerDigits(s, j) ==
    IF /\ j + 3 <= Len(s)
       /\ s[j] \in {"P", "p"}
       /\ s[j + 1] \in {"A", "a"}
       /\ s[j + 2] \in {"G", "g"}
       /\ s[j + 3] \in {"E", "e"}
    THEN LET w == RunLen(Space, s, j + 4)
             d == RunLen(DigitChars, s, j + 4 + w)
         IN IF w >= 1 THEN SubSeq(s, j + 4 + w, j + 3 + w + d) ELSE <<>>
    ELSE <<>>

\* where the bare markers of s start
BareStarts(s) == {j \in DOMAIN s : MarkerDigits(s, j) # <<>>}

\* the "P" of the heading-style marker whose "##" is at s[i]
HeadingWord(s, i) == i + 2 + RunLen(Space, s, i + 2)

\* where the heading-style markers of s start
HeadingStarts(s) ==
    {i \in DOMAIN s :
        /\ i < Len(s)
        /\ s[i] = "#"
        /\ s[i + 1] = "#"
        /\ HeadingWord(s, i) \in BareStarts(s)}

Least(S) == CHOOSE x \in S : \A y \in S : x <= y

RECURSIVE StripZeros(_)
StripZeros(ds) ==
    IF Len(ds) > 1 /\ Head(ds) = "0" THEN StripZeros(Tail(ds)) ELSE ds

\* v is the int written by the digits ds
IsNumber(v, ds) == v.type = "int" /\ Decimal(v.val) = StripZeros(ds)

Extracted == epc = "returned"

\* C12: the page returned is the integer of the leftmost heading-style
\* marker ("##", optional whitespace, "Page N", in any letter case) when the
\* content has one, otherwise the integer of the leftmost bare "Page N"
\* marker, and None when the content has neither or is empty or None;
\* "## Page 7\nSome text" gives 7 and "no marker here" gives None.
C12_PageRecovered ==
    Extracted =>
        /\ IF ~Truthy(content) THEN page_number = PyNone
           ELSE LET s == content.val
                IN IF HeadingStarts(s) # {}
                   THEN IsNumber(page_number,
                            MarkerDigits(s, HeadingWord(s, Least(HeadingStarts(s)))))
                   ELSE IF BareStarts(s) # {}
                   THEN IsNumber(page_number, MarkerDigits(s, Least(BareStarts(s))))
                   ELSE page_number = PyNone
        /\ content = PyStr(MarkedExample) => page_number = PyInt(7)
        /\ content = PyStr(UnmarkedExample) => page_number = PyNone

C12_Witness ==
    /\ Extracted
    /\ content = PyStr(MarkedExample)
    /\ page_number = PyInt(7)

\* the "P" of every heading-style marker of s
HeadingWords(s) == {HeadingWord(s, i) : i \in HeadingStarts(s)}

SeveralMarkers == Extracted /\ Truthy(content) /\ Cardinality(BareStarts(content.val)) >= 2

\* C13 as claimed: of several page markers the one that occurs earliest in
\* the content gives the page, whichever style each marker has.
C13_EarliestMarkerWins ==
    SeveralMarkers =>
        IsNumber(page_number,
                 MarkerDigits(content.val, Least(BareStarts(content.val))))

\* C13 as amended: of several page markers the earliest heading-style one
\* gives the page when there is a heading-style marker (also when a bare
\* marker occurs before it), and the earliest marker when all are bare;
\* every later marker of that style is ignored.
C13_EarliestOfPreferredStyle ==
    SeveralMarkers =>
        LET s == content.val
        IN /\ HeadingWords(s) = {}
                  => IsNumber(page_number, MarkerDigits(s, Least(BareStarts(s))))
           /\ HeadingWords(s) # {}
                  => IsNumber(page_number, MarkerDigits(s, Least(HeadingWords(s))))

\* "Page 3 ## Page 7": the bare marker comes first, the heading-style wins
C13_Witness ==
    /\ Extracted
    /\ content = PyStr(<<"P", "a", "g", "e", " ", "3", " ",
                         "#", "#", " ", "P", "a", "g", "e", " ", "7">>)
    /\ page_number = PyInt(7)

-----------------------------------------------------------------------------
(* search (src/search_tool.py).  A dict is a function from its keys; the    *)
(* query and the exception messages are plain strings.                      *)

\* most results of one backend response
MaxResults == 3

\* dict.get(key): None for a missing key
Get(d, key) == IF key \in DOMAIN d THEN d[key] ELSE PyNone

\* Python's `a or b` on values that are None or str
Or(a, b) == IF Truthy(a) THEN a ELSE b

\* a chunk record whose title and link prefer the derived metadata
AnnotateDerivedFirst(r) ==
    LET doc == r.document
        struct == doc.struct_data
        derived == doc.derived_struct_data
    IN [content |-> r.chunk.content,
        title |-> Or(Get(derived, "title"), Get(struct, "title")),
        uri |-> Or(Get(derived, "link"), Or(Get(struct, "link"), Get(struct, "uri"))),
        document_id |-> IF Truthy(doc.id) THEN doc.id ELSE PyNone,
        page |-> extract_page_from_content(r.chunk.content)]

\* lines 95-106: the chunk record of one result (dict(m) if m else {} is m
\* for a mapping m)
Annotate(r) ==
    LET doc == r.document
        struct == doc.struct_data
        derived == doc.derived_struct_data
    IN [content |-> r.chunk.content,
        title |-> Or(Get(struct, "title"), Get(derived, "title")),
        uri |-> Or(Get(struct, "uri"), Or(Get(struct, "link"), Get(derived, "link"))),
        document_id |-> IF Truthy(doc.id) THEN doc.id ELSE PyNone,
        page |-> extract_page_from_content(r.chunk.content)]

\* the loop body with no test of the content
AccumulateAll(cs, r) == Append(cs, Annotate(r))

\* lines 89-106: one pass of the loop body
Accumulate(cs, r) ==
    IF ~Truthy(r.chunk.content) THEN cs ELSE Append(cs, Annotate(r))

\* an except clause that hands back the chunks built before the failure
OnExceptionKeepPartial(q, cs, msg) ==
    [chunks |-> cs, query |-> q, total_results |-> Len(cs), error |-> msg]

\* lines 117-124: the dict returned by the except clause; cs is the local
\* list at the time of the failure, msg is str(e)
OnException(q, cs, msg) ==
    [chunks |-> <<>>, query |-> q, total_results |-> 0, error |-> msg]

\* lines 108-112
OnSuccess(q, cs) == [chunks |-> cs, query |-> q, total_results |-> Len(cs)]

-----------------------------------------------------------------------------
(* Inputs of search *)

\* the dicts over some of the keys of vals, each key present holding the
\* empty str or its value in vals
DictsOver(vals) ==
    UNION {{[k \in K |-> IF k \in E THEN PyStr(<<>>) ELSE vals[k]] : E \in SUBSET K} :
               K \in SUBSET DOMAIN vals}

StructValues ==
    [title |-> PyStr(<<"A">>), uri |-> PyStr(<<"u">>), link |-> PyStr(<<"l">>)]
DerivedValues == [title |-> PyStr(<<"B">>), link |-> PyStr(<<"m">>)]

StructDicts == DictsOver(StructValues)
DerivedDicts == DictsOver(DerivedValues)

DocId == PyStr(<<"d", "1">>)

\* results of every metadata, for the responses of one result
RichResults ==
    {[document |-> [struct_data |-> sd, derived_struct_data |-> dd, id |-> id],
      chunk |-> [content |-> PyStr(<<"x">>)]] :
         sd \in StructDicts, dd \in DerivedDicts, id \in {PyStr(<<>>), DocId}}

\* results of little metadata, for the responses of several results
PlainResults ==
    {[document |-> [struct_data |-> sd, derived_struct_data |-> <<>>, id |-> DocId],
      chunk |-> [content |-> PyStr(c)]] :
         sd \in {<<>>, [title |-> PyStr(<<"A">>), uri |-> PyStr(<<"u">>)]},
         c \in {<<>>, <<"x">>, <<"#", "#", " ", "P", "a", "g", "e", " ", "7">>}}

Responses ==
    SeqsUpTo(PlainResults, MaxResults) \cup {<<r>> : r \in RichResults}

Queries == {"who", "when"}

NoFault == [stage |-> "none", at |-> 0, msg |-> ""]

\* an exception raised by the client's construction, by client.search, or
\* while the loop fetches and handles result number at (one past the last:
\* while the pager looks for more); str(e) may be empty
Faults(resp) ==
    {NoFault,
     [stage |-> "client", at |-> 0, msg |-> "no credentials"],
     [stage |-> "search", at |-> 0, msg |-> ""]}
    \cup {[stage |-> "results", at |-> k, msg |-> "unavailable"] :
              k \in 1..(Len(resp) + 1)}

-----------------------------------------------------------------------------
(* One call of search *)

InitSearch ==
    /\ query \in Queries
    /\ response \in Responses
    /\ fault \in Faults(response)
    /\ chunks = <<>>
    /\ next_result = 0
    /\ ret = Unset
    /\ spc = "call"
    /\ IdleNormalize
    /\ IdleRender
    /\ IdleExtract
    /\ IdleIngest

\* lines 59-88: the client is built and the request answered
CallBackend ==
    /\ spc = "call"
    /\ fault.stage \notin {"client", "search"}
    /\ chunks' = <<>>
    /\ next_result' = 1
    /\ spc' = "loop"
    /\ UNCHANGED <<query, response, fault, ret>>
    /\ UNCHANGED <<nvars, rvars, evars, ivars>>

\* lines 88-106: the loop handles one result
HandleResult ==
    /\ spc = "loop"
    /\ next_result <= Len(response)
    /\ ~(fault.stage = "results" /\ fault.at = next_result)
    /\ chunks' = Accumulate(chunks, response[next_result])
    /\ next_result' = next_result + 1
    /\ UNCHANGED <<query, response, fault, ret, spc>>
    /\ UNCHANGED <<nvars, rvars, evars, ivars>>

\* lines 108-115: the loop is over
ReturnResult ==
    /\ spc = "loop"
    /\ next_result = Len(response) + 1
    /\ ~(fault.stage = "results" /\ fault.at = next_result)
    /\ ret' = OnSuccess(query, chunks)
    /\ spc' = "returned"
    /\ UNCHANGED <<query, response, fault, chunks, next_result>>
    /\ UNCHANGED <<nvars, rvars, evars, ivars>>

\* lines 117-124: an exception of the try block is caught
CatchException ==
    /\ \/ spc = "call" /\ fault.stage \in {"client", "search"}
       \/ spc = "loop" /\ fault.stage = "results" /\ fault.at = next_result
    /\ ret' = OnException(query, chunks, fault.msg)
    /\ spc' = "returned"
    /\ UNCHANGED <<query, response, fault, chunks, next_result>>
    /\ UNCHANGED <<nvars, rvars, evars, ivars>>

NextSearch == CallBackend \/ HandleResult \/ ReturnResult \/ CatchException

SpecSearch == InitSearch /\ [][NextSearch]_vars

-----------------------------------------------------------------------------
(* Properties of search *)

\* search returned from its try block
Succeeded == spc = "returned" /\ fault = NoFault

\* the results with content, in backend order
Kept == SelectSeq(response, LAMBDA r : Truthy(r.chunk.content))

\* C14: the metadata of every returned chunk is resolved in a fixed order,
\* the first non-empty value winning: the title is the structured title if
\* non-empty, else the derived title; the uri is the structured uri if
\* non-empty, else the structured link if non-empty, else the derived link.
\* Metadata {title: "A", uri: "u"} gives title "A" and uri "u".
C14_FirstNonEmptyWins ==
    Succeeded =>
        /\ Len(ret.chunks) = Len(Kept)
        /\ \A k \in DOMAIN Kept :
               LET struct == Kept[k].document.struct_data
                   derived == Kept[k].document.derived_struct_data
                   chunk == ret.chunks[k]
               IN /\ Truthy(Get(struct, "title")) => chunk.title = struct["title"]
                  /\ ~Truthy(Get(struct, "title"))
                         => chunk.title = Get(derived, "title")
                  /\ Truthy(Get(struct, "uri")) => chunk.uri = struct["uri"]
                  /\ (~Truthy(Get(struct, "uri")) /\ Truthy(Get(struct, "link")))
                         => chunk.uri = struct["link"]
                  /\ (~Truthy(Get(struct, "uri")) /\ ~Truthy(Get(struct, "link")))
                         => chunk.uri = Get(derived, "link")
                  /\ struct = [title |-> PyStr(<<"A">>), uri |-> PyStr(<<"u">>)]
                         => chunk.title = PyStr(<<"A">>) /\ chunk.uri = PyStr(<<"u">>)

\* a structured title and link set, a structured uri empty, derived values
\* set as well
C14_Witness ==
    /\ Succeeded
    /\ Len(response) = 1
    /\ response[1].document.struct_data
           = [title |-> PyStr(<<"A">>), uri |-> PyStr(<<>>), link |-> PyStr(<<"l">>)]
    /\ response[1].document.derived_struct_data
           = [title |-> PyStr(<<"B">>), link |-> PyStr(<<"m">>)]
    /\ ret.chunks[1].title = PyStr(<<"A">>)
    /\ ret.chunks[1].uri = PyStr(<<"l">>)

\* C15: the title, uri and document_id of every returned chunk are None or
\* a non-empty value, never the empty string, whatever mix of missing, empty
\* and non-empty values the structured and derived metadata hold; with no
\* metadata at all they are all None.
C15_UnresolvedIsNone ==
    Succeeded =>
        \A k \in DOMAIN ret.chunks :
            LET chunk == ret.chunks[k]
            IN /\ chunk.title # PyStr(<<>>)
               /\ chunk.uri # PyStr(<<>>)
               /\ chunk.document_id # PyStr(<<>>)
               /\ (/\ Kept[k].document.struct_data = <<>>
                   /\ Kept[k].document.derived_struct_data = <<>>
                   /\ Kept[k].document.id = PyStr(<<>>))
                      => /\ chunk.title = PyNone
                         /\ chunk.uri = PyNone
                         /\ chunk.document_id = PyNone

\* C16: a successful call returns one chunk per backend result that has
\* content, in backend order, each with the content as the backend gave it;
\* results of empty content are left out, and total_results is the number
\* of chunks returned.
C16_ChunksAreResultsWithContent ==
    Succeeded =>
        /\ Len(ret.chunks) = Len(Kept)
        /\ \A k \in DOMAIN ret.chunks :
               /\ ret.chunks[k].content = Kept[k].chunk.content
               /\ ret.chunks[k].content.val # <<>>
        /\ ret.total_results = Len(ret.chunks)

C16_Witness ==
    /\ Succeeded
    /\ Len(response) = 3
    /\ ~Truthy(response[2].chunk.content)
    /\ Len(ret.chunks) = 2
    /\ ret.chunks[1].content = PyStr(<<"x">>)
    /\ ret.chunks[2].content = PyStr(<<"#", "#", " ", "P", "a", "g", "e", " ", "7">>)
    /\ ret.total_results = 2

\* C17: search always returns a dict: when the client's construction, the
\* backend call or the handling of a result raises, the dict has no chunks
\* (those built before the failure are dropped), total_results 0, the query
\* and the message as error; otherwise it has chunks, query and
\* total_results and no error.
C17_ErrorRecordOnException ==
    spc = "returned" =>
        IF fault = NoFault
        THEN /\ DOMAIN ret = {"chunks", "query", "total_results"}
             /\ ret.query = query
        ELSE ret = [chunks |-> <<>>, query |-> query, total_results |-> 0,
                    error |-> fault.msg]

\* the second result raises after the first gave a chunk
C17_Witness ==
    /\ spc = "returned"
    /\ fault.stage = "results"
    /\ fault.at = 2
    /\ Len(chunks) = 1
    /\ ret.chunks = <<>>
    /\ ret.error = "unavailable"

-----------------------------------------------------------------------------
(* Ingestion: 01_prepare_data.py and 02_upload_to_gcs.py.  A path and a    *)
(* blob name are the sequences of their components.                        *)

\* most runs of 01_prepare_data.py
MaxPrepares == 2

\* config.BUCKET_NAME and config.SITE_PREFIX
BUCKET_NAME == "bucket"
SITE_PREFIX == "site"

\* Path.name, Path.stem and the suffix of the file names used
FileNames == {"a.html", "b.html", "n.txt"}
Stem(name) ==
    CASE name = "a.html" -> <<"a">>
      [] name = "b.html" -> <<"b">>
      [] name = "n.txt" -> <<"n">>
Suffix(name) == IF name = "n.txt" THEN ".txt" ELSE ".html"
Name(path) == path[Len(path)]

\* --output-dir, and its html directory
OutputDir == <<"output">>
HtmlOutputFile(name) == OutputDir \o <<"html", name>>

\* hashlib.md5(str(path).encode('utf-8')).hexdigest(): a digest of the path
\* string, taken to differ for the different paths used
Md5OfPath(path) == [md5_of |-> Join([k \in DOMAIN path |-> <<path[k]>>], "/")]

\* f[key] = value, as a write or a copy does on a directory or a bucket
Put(f, key, value) ==
    [x \in DOMAIN f \cup {key} |-> IF x = key THEN value ELSE f[x]]
Remove(f, key) == [x \in DOMAIN f \ {key} |-> f[x]]

\* 01_prepare_data.py lines 27-43: the metadata dict for the file at
\* html_file_path
Metadata(html_file_path, ttl) ==
    [id |-> Md5OfPath(html_file_path),
     content |-> [mimeType |-> "text/html",
                  uri |-> <<"gs:", "", BUCKET_NAME, SITE_PREFIX, "html",
                            Name(html_file_path)>>],
     structData |-> [title |-> IF Truthy(ttl) THEN ttl
                               ELSE PyStr(Stem(Name(html_file_path))),
                     source_file |-> Name(html_file_path)]]

\* line 45: write_text replaces the file by the one line
WriteMetadata(lines, record) == <<record>>

\* 02_upload_to_gcs.py line 71: html_dir.glob('*.html')
Glob(dir) == {n \in DOMAIN dir : Suffix(n) = ".html"}

HtmlPrefix == <<SITE_PREFIX, "html">>
MetadataBlob == <<SITE_PREFIX, "metadata.jsonl">>
HtmlBlob(name) == HtmlPrefix \o <<name>>

HasPrefix(blob, prefix) ==
    Len(blob) > Len(prefix) /\ SubSeq(blob, 1, Len(prefix)) = prefix

\* a clean-up that deletes the old metadata only
OldBlobsMetadataOnly(bkt) == {MetadataBlob} \cap DOMAIN bkt

\* lines 89-92: list_blobs(prefix=<site>/html/) and the metadata blob if it
\* exists
OldBlobs(bkt) ==
    {b \in DOMAIN bkt : HasPrefix(b, HtmlPrefix)}
    \cup ({MetadataBlob} \cap DOMAIN bkt)

-----------------------------------------------------------------------------
(* Inputs of the ingestion steps *)

ExternalPaths == {<<"in", "a.html">>, <<"in", "b.html">>, <<"tmp", "a.html">>,
                  <<"in", "n.txt">>}
FileContents == {"v1", "v2"}
\* the files outside the output directory, the .txt one always the same
InputFiles ==
    {f \in [ExternalPaths -> FileContents] : f[<<"in", "n.txt">>] = "v1"}
TitleArgs == {PyNone, PyStr(<<"T">>)}

EmptyBucket == <<>>
\* what earlier runs and other users left in the bucket
StaleBucket ==
    [b \in {HtmlBlob("a.html"), HtmlPrefix \o <<"old", "x.html">>,
            MetadataBlob, <<SITE_PREFIX, "notes.txt">>, <<"other", "html", "y.html">>}
       |-> "stale"]

-----------------------------------------------------------------------------
(* The ingestion steps run one after the other on one output directory *)

InitIngest ==
    /\ inputs \in InputFiles
    /\ html_dir = <<>>
    /\ metadata_file = <<>>
    /\ issued = {}
    /\ prepares = 0
    /\ bucket \in {EmptyBucket, StaleBucket}
    /\ blobs_to_delete = {}
    /\ html_files = {}
    /\ ops = <<>>
    /\ ipc = "idle"
    /\ IdleNormalize
    /\ IdleRender
    /\ IdleExtract
    /\ IdleSearch

\* 01_prepare_data.py main with --input html_file and --title ttl: the file
\* is copied into html/ unless it is there already, and metadata.jsonl is
\* written for it
Prepare(html_file, ttl) ==
    LET html_output_file == HtmlOutputFile(Name(html_file))
        copied == IF html_file # html_output_file
                  THEN Put(html_dir, Name(html_file), inputs[html_file])
                  ELSE html_dir
        record == Metadata(html_output_file, ttl)
    IN /\ ipc \in {"idle", "done"}
       /\ prepares < MaxPrepares
       /\ html_dir' = copied
       /\ metadata_file' = WriteMetadata(metadata_file, record)
       /\ issued' = issued \cup {[doc_id |-> record.id,
                                  html_filename |-> Name(html_file),
                                  content |-> copied[Name(html_file)]]}
       /\ prepares' = prepares + 1
       /\ ipc' = "idle"
       /\ UNCHANGED <<inputs, bucket, blobs_to_delete, html_files, ops>>
       /\ UNCHANGED <<nvars, rvars, evars, svars>>

\* an existing --input: a file outside the output directory or one of html/
PrepareAny ==
    \E html_file \in DOMAIN inputs \cup {HtmlOutputFile(n) : n \in DOMAIN html_dir},
       ttl \in TitleArgs :
        Prepare(html_file, ttl)

\* 02_upload_to_gcs.py lines 60-92: the prepared data is there; the local
\* files and the old blobs are listed
StartUpload ==
    /\ ipc \in {"idle", "done"}
    /\ metadata_file # <<>>
    /\ Glob(html_dir) # {}
    /\ html_files' = Glob(html_dir)
    /\ blobs_to_delete' = OldBlobs(bucket)
    /\ ops' = <<>>
    /\ ipc' = "uploading"
    /\ UNCHANGED <<inputs, html_dir, metadata_file, issued, prepares, bucket>>
    /\ UNCHANGED <<nvars, rvars, evars, svars>>

\* lines 95-98: one pass of the clean-up loop (the listed blobs first, the
\* metadata blob last)
DeleteBlob ==
    /\ ipc = "uploading"
    /\ \E blob \in blobs_to_delete :
           /\ blob = MetadataBlob => blobs_to_delete = {MetadataBlob}
           /\ bucket' = Remove(bucket, blob)
           /\ ops' = IF blob \in DOMAIN bucket
                     THEN Append(ops, [op |-> "delete", blob |-> blob])
                     ELSE ops
           /\ blobs_to_delete' = blobs_to_delete \ {blob}
    /\ UNCHANGED <<inputs, html_dir, metadata_file, issued, prepares, html_files, ipc>>
    /\ UNCHANGED <<nvars, rvars, evars, svars>>

\* lines 107-109: one pass of the upload loop (glob gives no order)
UploadHtml ==
    /\ ipc = "uploading"
    /\ blobs_to_delete = {}
    /\ \E name \in html_files :
           /\ bucket' = Put(bucket, HtmlBlob(name), html_dir[name])
           /\ ops' = Append(ops, [op |-> "upload", blob |-> HtmlBlob(name)])
           /\ html_files' = html_files \ {name}
    /\ UNCHANGED <<inputs, html_dir, metadata_file, issued, prepares,
                   blobs_to_delete, ipc>>
    /\ UNCHANGED <<nvars, rvars, evars, svars>>

\* line 113, and the run is over
UploadMetadata ==
    /\ ipc = "uploading"
    /\ blobs_to_delete = {}
    /\ html_files = {}
    /\ bucket' = Put(bucket, MetadataBlob, metadata_file)
    /\ ops' = Append(ops, [op |-> "upload", blob |-> MetadataBlob])
    /\ ipc' = "done"
    /\ UNCHANGED <<inputs, html_dir, metadata_file, issued, prepares,
                   blobs_to_delete, html_files>>
    /\ UNCHANGED <<nvars, rvars, evars, svars>>

\* a call of the storage client raises and the run dies
UploadFails ==
    /\ ipc = "uploading"
    /\ ipc' = "failed"
    /\ UNCHANGED <<inputs, html_dir, metadata_file, issued, prepares, bucket,
                   blobs_to_delete, html_files, ops>>
    /\ UNCHANGED <<nvars, rvars, evars, svars>>

NextIngest ==
    PrepareAny \/ StartUpload \/ DeleteBlob \/ UploadHtml \/ UploadMetadata
    \/ UploadFails

SpecIngest == InitIngest /\ [][NextIngest]_vars

-----------------------------------------------------------------------------
(* Properties of the ingestion steps *)

\* the lines of metadata.jsonl that are the record of the file name
RecordsOf(name) ==
    {k \in DOMAIN metadata_file : metadata_file[k].structData.source_file = name}

\* C18: whatever was prepared into the output directory, metadata.jsonl
\* holds one record for every HTML file of html/ (the files the upload step
\* uploads).
C18_RecordPerHtmlFile ==
    \A name \in Glob(html_dir) : Cardinality(RecordsOf(name)) = 1

\* C19: the id of a metadata record is a function of the document's
\* content and of nothing else: records written for the same content have
\* the same id, records written for different contents have different ids,
\* whatever the file paths.
C19_ContentAddressed ==
    \A p, q \in issued : (p.content = q.content) <=> (p.doc_id = q.doc_id)

\* the blobs of the bucket that the upload step owns
Owned(bkt) == {b \in DOMAIN bkt : HasPrefix(b, HtmlPrefix) \/ b = MetadataBlob}

\* C20: in a run of the upload step every deletion comes before every
\* upload, every old blob under <prefix>/html/ and the old metadata blob
\* are gone before the first upload, and the HTML files are uploaded before
\* metadata.jsonl; when the run completes, the blobs under <prefix>/html/
\* and <prefix>/metadata.jsonl are exactly the local html/*.html files and
\* the local metadata.jsonl, with their contents.
C20_CleanThenUpload ==
    /\ \A i, j \in DOMAIN ops :
           (i < j /\ ops[i].op = "upload") => ops[j].op = "upload"
    /\ \A i, j \in DOMAIN ops :
           (i < j /\ ops[i].blob = MetadataBlob /\ ops[i].op = "upload")
               => ops[j].blob = MetadataBlob
    /\ (\E i \in DOMAIN ops : ops[i].op = "upload")
           => /\ blobs_to_delete = {}
              /\ \A b \in Owned(bucket) :
                     \E i \in DOMAIN ops : ops[i] = [op |-> "upload", blob |-> b]
    /\ ipc = "done"
           => /\ Owned(bucket) = {HtmlBlob(n) : n \in Glob(html_dir)} \cup {MetadataBlob}
              /\ \A n \in Glob(html_dir) : bucket[HtmlBlob(n)] = html_dir[n]
              /\ bucket[MetadataBlob] = metadata_file

\* a run on a bucket with old blobs and two local HTML files
C20_Witness ==
    /\ ipc = "done"
    /\ Glob(html_dir) = {"a.html", "b.html"}
    /\ Len(ops) = 6
    /\ ops[1].op = "delete"
    /\ ops[3] = [op |-> "delete", blob |-> MetadataBlob]
    /\ ops[6] = [op |-> "upload", blob |-> MetadataBlob]
    /\ (HtmlPrefix \o <<"old", "x.html">>) \notin DOMAIN bucket
    /\ <<SITE_PREFIX, "notes.txt">> \in DOMAIN bucket

====
